---- MODULE Spec2Model ----
(***************************************************************************)
(* MarketHub server (src/server.js): the balance ledger, the NFT catalog   *)
(* and the request handlers that change them, with both storage backends   *)
(* (the in-memory mockDB and the Supabase tables).                         *)
(*                                                                         *)
(* A handler runs without interruption up to its next `await`; every       *)
(* `await` of a Supabase call or of fetch() is a point where the other     *)
(* requests in flight may run.  With the in-memory backend the buy,        *)
(* add_balance and ton/purchase handlers contain no await and are one step.*)
(*                                                                         *)
(* Amounts are JavaScript Numbers holding decimal TON values.  They are    *)
(* modelled exactly as multiples of 1e-9 TON, as a pair [hi, lo] with      *)
(* value hi * 0.1 TON + lo * 1e-9 TON and 0 <= lo < LoBase, so that        *)
(* toFixed(8) is a real rounding.  Binary floating point error below       *)
(* 1e-9 is not modelled.                                                   *)
(***************************************************************************)
EXTENDS Integers, Sequences, FiniteSets, TLC

\* ------------------------------------------------------------- bounds
\* Number of requests the model lets arrive.
MaxReq == 2
\* Number of Supabase calls that may fail.
MaxFaults == 1
\* Number of clock ticks after start.
MaxTicks == 1

\* ------------------------------------------------------------ numbers
\* 0.1 TON in units of 1e-9 TON.
LoBase == 100000000

Num(h, l) == [hi |-> h, lo |-> l]

Zero == Num(0, 0)

\* Number(cur) + Number(amount)
NumAdd(x, y) ==
    LET sum == x.lo + y.lo
    IN  Num(x.hi + y.hi + (sum \div LoBase), sum % LoBase)

NumNeg(x) == IF x.lo = 0 THEN Num(-x.hi, 0) ELSE Num(-x.hi - 1, LoBase - x.lo)

\* Number(balance) - Number(nft.price)
NumSub(x, y) == NumAdd(x, NumNeg(y))

\* x < y
NumLess(x, y) == x.hi < y.hi \/ (x.hi = y.hi /\ x.lo < y.lo)

NumLeq(x, y) == x = y \/ NumLess(x, y)

\* Number(x.toFixed(8)) for x >= 0: the nearest multiple of 1e-8, a tie going up.
RoundUp8(x) ==
    LET r == ((x.lo + 5) \div 10) * 10
    IN  IF r = LoBase THEN Num(x.hi + 1, 0) ELSE Num(x.hi, r)

\* Number(x.toFixed(8)): toFixed rounds the magnitude and keeps the sign.
ToFixed8(x) == IF NumLess(x, Zero) THEN NumNeg(RoundUp8(NumNeg(x))) ELSE RoundUp8(x)

\* ---------------------------------------------------------- constants
ADMIN_TELEGRAM_ID == "6828395702"

DemoUser == "12345678"

\* An absent request field (undefined); JavaScript null.
Missing == "undefined"

Null == "null"

\* Date.now() when the server starts, in milliseconds (abstracted).
StartTime == 1000

UserIds == {DemoUser, "42"}

\* price: 1.0 of an ingested NFT
IngestPrice == Num(10, 0)

SeedNfts ==
    << [id |-> 1, ref |-> "DeskCalendar-4567", price |-> Num(25, 0), owner_id |-> Null],
       [id |-> 2, ref |-> "AbstractSoul-12", price |-> Num(12, 0), owner_id |-> Null],
       [id |-> 3, ref |-> "BluePlanet-77", price |-> Num(30, 0), owner_id |-> Null],
       [id |-> 4, ref |-> "Fragment-9", price |-> Num(5, 0), owner_id |-> Null] >>

SeedBalance == Num(200, 0)

\* typeof nft_id === 'undefined'
MissingId == -1

\* typeof amount === 'undefined'
MissingAmount == [hi |-> 0, lo |-> -1]

\* ------------------------------------------------------------- state
VARIABLES
    useSupabase,  \* which backend is active (fixed at start)
    balances,     \* mockDB.balances / table balances: user_id -> amount
    nfts,         \* mockDB.nfts / table nfts, in listing order
    profiles,     \* mockDB.profiles / table profiles: id -> stars_balance, premium_until
    now,          \* Date.now()
    req,          \* the requests: parameters, position in the handler, locals, response
    faults,       \* Supabase calls that have failed so far
    balances0,    \* the balances at start (never changed; for the accounting claims)
    listed        \* the ids of the last /api/nfts response, in its order (<<>>: none yet)

vars == <<useSupabase, balances, nfts, profiles, now, req, faults, balances0, listed>>

Slots == 1..MaxReq

NoResp == [code |-> 0, error |-> "", balance |-> <<>>]

Resp(code, error, balance) == [code |-> code, error |-> error, balance |-> balance]

IdleReq == [kind |-> "none", pc |-> "idle", resp |-> NoResp, fault |-> FALSE]

\* A request whose body lacks a parameter: the handler returns 400 at once.
Invalid == [IdleReq EXCEPT !.kind = "invalid"]

\* res.json / res.status(..).json: the handler returns
Done(r, resp) == [r EXCEPT !.pc = "done", !.resp = resp]

\* An awaited Supabase call outside try/catch rejects: the handler ends with no response.
Crashed(r) == [r EXCEPT !.pc = "crashed", !.fault = TRUE]

Ended(r) == r.pc \in {"done", "crashed"}

InFlight(r) == r.pc \notin {"idle", "done", "crashed"}

\* A Supabase call either succeeds, resolves with {data: null, error}, or rejects.
Outcomes == {"ok", "error", "throw"}

\* ------------------------------------------------------------ storage
\* mockDB.balances[userId] || 0   /   data ? Number(data.amount) : 0
GetBalance(bals, userId) == IF userId \in DOMAIN bals THEN bals[userId] ELSE Zero

\* An update in place of the upsert: a missing row is not created.
UpsertExistingOnly(bals, userId, v) ==
    [u \in DOMAIN bals |-> IF u = userId THEN v ELSE bals[u]]

\* mockDB.balances[userId] = v   /   balances.upsert({user_id, amount}, onConflict user_id)
Upsert(bals, userId, v) ==
    [u \in DOMAIN bals \cup {userId} |-> IF u = userId THEN v ELSE bals[u]]

HasId(cat, nft_id) == \E i \in 1..Len(cat) : cat[i].id = nft_id

FirstIndex(cat, nft_id) ==
    CHOOSE i \in 1..Len(cat) :
        /\ cat[i].id = nft_id
        /\ \A j \in 1..(i - 1) : cat[j].id # nft_id

\* mockDB.nfts.find(x => x.id === Number(nft_id))  /  .eq('id', nft_id).limit(1).maybeSingle()
\* <<>> stands for undefined / null.
FindNft(cat, nft_id) ==
    IF HasId(cat, nft_id) THEN << cat[FirstIndex(cat, nft_id)] >> ELSE <<>>

\* The commit without the assignment of line 219.
SetOwnerMockSkipped(cat, nft_id, userId) == cat

\* idx = findIndex(..); if (idx !== -1) mockDB.nfts[idx].owner_id = userId
SetOwnerMock(cat, nft_id, userId) ==
    IF HasId(cat, nft_id)
    THEN [cat EXCEPT ![FirstIndex(cat, nft_id)].owner_id = userId]
    ELSE cat

\* nfts.update({ owner_id: userId }).eq('id', nft_id)
SetOwnerSupabase(cat, nft_id, userId) ==
    [i \in 1..Len(cat) |->
        IF cat[i].id = nft_id THEN [cat[i] EXCEPT !.owner_id = userId] ELSE cat[i]]

\* ------------------------------------------------------------- inputs
BuyerIds == UserIds \cup {Missing}

\* Ids of NFTs ingested before the model starts, and the ids requests ask for.
OldIngestIds == {StartTime - 2, StartTime - 1}

BuyNftIds == {MissingId} \cup OldIngestIds

AdminIds == {ADMIN_TELEGRAM_ID, "42", Missing}

TargetIds == {"42", Missing}

OneTon == Num(10, 0)

FourNano == Num(0, 4)

Amounts == {OneTon, NumNeg(OneTon), FourNano, MissingAmount}

\* A request may arrive in slot s.
CanStart(s) == req[s].pc = "idle" /\ (IF s = 1 THEN TRUE ELSE req[s - 1].pc # "idle")

\* A failing Supabase call uses up one of the MaxFaults failures.
FaultStep(o) ==
    /\ o # "ok" => faults < MaxFaults
    /\ faults' = IF o = "ok" THEN faults ELSE faults + 1

\* --------------------------------------------- POST /api/nft/buy
\* !buyer_id || typeof nft_id === 'undefined'
MissingBuyParams(buyer_id, nft_id) == buyer_id = Missing \/ nft_id = MissingId

\* The ownership test written as owner_id !== undefined: null passes it.
IsOwnedUndefinedOnly(nft) == nft.owner_id = Missing

\* if (nft.owner_id)
IsOwned(nft) == nft.owner_id # Null

\* The comparison of line 201 with its operands exchanged.
InsufficientReversed(balance, nft) == NumLess(nft.price, balance)

\* balance < Number(nft.price)
Insufficient(balance, nft) == NumLess(balance, nft.price)

\* (Number(balance) - Number(nft.price)).toFixed(8)
NewBalance(balance, nft) == ToFixed8(NumSub(balance, nft.price))

\* The buy and add_balance requests in the middle of their handler.
Running == {t \in Slots : req[t].kind \in {"buy", "add"} /\ InFlight(req[t])}

\* History of one buy request: at arrival the asset was unowned and the buyer
\* could pay (eligible); an earlier request of the same buyer for the same
\* asset had applied both of its writes (retry); the requests that were in
\* the middle of their handler when it arrived (during).
Eligible(userId, nft_id) ==
    /\ HasId(nfts, nft_id)
    /\ ~IsOwned(nfts[FirstIndex(nfts, nft_id)])
    /\ NumLeq(nfts[FirstIndex(nfts, nft_id)].price, GetBalance(balances, userId))

Committed(r) == r.kind = "buy" /\ r.pc = "done" /\ r.wrote /\ r.owned

IsRetry(userId, nft_id) ==
    \E t \in Slots :
        Committed(req[t]) /\ req[t].userId = userId /\ req[t].nft_id = nft_id

BuyReq(userId, nft_id) ==
    [kind |-> "buy", pc |-> "fetch_nft", resp |-> NoResp, fault |-> FALSE,
     userId |-> userId, nft_id |-> nft_id,
     nft |-> <<>>, balance |-> Zero, newBalance |-> Zero,
     wrote |-> FALSE, debit |-> Zero, owned |-> FALSE,
     eligible |-> Eligible(userId, nft_id), retry |-> IsRetry(userId, nft_id),
     during |-> Running]

\* The handler returns: its locals are gone.
BuyDone(r, resp) ==
    Done([r EXCEPT !.nft = <<>>, !.balance = Zero, !.newBalance = Zero], resp)

\* Lines 189-190 without the test of line 190.
CheckNftNoOwnerTest(r, data) ==
    IF data = <<>> THEN BuyDone(r, Resp(404, "nft not found", <<>>))
    ELSE [r EXCEPT !.pc = "get_balance", !.nft = data]

\* Lines 189-190, on the fetched row (data).
CheckNft(r, data) ==
    IF data = <<>> THEN BuyDone(r, Resp(404, "nft not found", <<>>))
    ELSE IF IsOwned(data[1]) THEN BuyDone(r, Resp(400, "already owned", <<>>))
    ELSE [r EXCEPT !.pc = "get_balance", !.nft = data]

\* Lines 201-206, on the balance read.
CheckBalance(r, balance) ==
    IF Insufficient(balance, r.nft[1])
    THEN BuyDone(r, Resp(200, "insufficient_balance", <<balance>>))
    ELSE [r EXCEPT !.pc = "upsert_balance", !.balance = balance,
                   !.newBalance = NewBalance(balance, r.nft[1])]

\* The request's balance write, with what it did to the stored balance.
WroteBalance(r) ==
    [r EXCEPT !.wrote = TRUE,
              !.debit = NumSub(GetBalance(balances, r.userId), r.newBalance)]

\* await supabase.from('nfts').select('*').eq('id', nft_id)... (line 184), then 189-190
FetchedNft(r, o) ==
    IF o = "throw" THEN Crashed(BuyDone(r, NoResp))
    ELSE IF o = "error" THEN CheckNft([r EXCEPT !.fault = TRUE], <<>>)
    ELSE CheckNft(r, FindNft(nfts, r.nft_id))

\* The request arrives.  In-memory: the whole handler (lines 176-221) runs
\* now.  Supabase: it runs to the end of its first awaited call (line 184) and
\* the checks on its result; the handler reads nothing before that call, so
\* the request counts as arriving when the call is served.
BuyStart(s, buyer_id, nft_id, o) ==
    /\ CanStart(s)
    /\ UNCHANGED <<useSupabase, profiles, now, balances0, listed>>
    /\ IF useSupabase /\ ~MissingBuyParams(buyer_id, nft_id)
       THEN FaultStep(o)
       ELSE o = "ok" /\ UNCHANGED faults
    /\ IF MissingBuyParams(buyer_id, nft_id)
       THEN /\ req' = [req EXCEPT ![s] =
                    Done(Invalid,
                         Resp(400, "missing buyer_id or nft_id", <<>>))]
            /\ UNCHANGED <<balances, nfts>>
       ELSE IF useSupabase
       THEN /\ req' = [req EXCEPT ![s] = FetchedNft(BuyReq(buyer_id, nft_id), o)]
            /\ UNCHANGED <<balances, nfts>>
       ELSE LET r0 == BuyReq(buyer_id, nft_id)
                r1 == CheckNft(r0, FindNft(nfts, nft_id))
                r2 == IF r1.pc = "get_balance"
                      THEN CheckBalance(r1, GetBalance(balances, buyer_id))
                      ELSE r1
            IN  IF r2.pc = "upsert_balance"
                THEN /\ balances' = Upsert(balances, buyer_id, r2.newBalance)
                     /\ nfts' = SetOwnerMock(nfts, nft_id, buyer_id)
                     /\ req' = [req EXCEPT ![s] =
                            BuyDone([WroteBalance(r2) EXCEPT !.owned = HasId(nfts, nft_id)],
                                    Resp(200, "", <<r2.newBalance>>))]
                ELSE /\ req' = [req EXCEPT ![s] = r2]
                     /\ UNCHANGED <<balances, nfts>>

\* await supabase.from('balances').select('amount')... (line 195), then 196-206
BuyGetBalance(s, o) ==
    /\ req[s].kind = "buy" /\ req[s].pc = "get_balance"
    /\ FaultStep(o)
    /\ req' = [req EXCEPT ![s] =
            IF o = "throw" THEN Crashed(BuyDone(req[s], NoResp))
            ELSE IF o = "error" THEN CheckBalance([req[s] EXCEPT !.fault = TRUE], Zero)
            ELSE CheckBalance(req[s], GetBalance(balances, req[s].userId))]
    /\ UNCHANGED <<useSupabase, balances, nfts, profiles, now, balances0, listed>>

\* await supabase.from('balances').upsert(...) (line 210); a rejection is caught (213)
BuyUpsertBalance(s, o) ==
    /\ req[s].kind = "buy" /\ req[s].pc = "upsert_balance"
    /\ FaultStep(o)
    /\ balances' = IF o = "ok"
                   THEN Upsert(balances, req[s].userId, req[s].newBalance)
                   ELSE balances
    /\ req' = [req EXCEPT ![s] =
            IF o = "throw"
            THEN BuyDone([req[s] EXCEPT !.fault = TRUE], Resp(500, "error", <<>>))
            ELSE IF o = "error"
            THEN [req[s] EXCEPT !.fault = TRUE, !.pc = "update_nft"]
            ELSE [WroteBalance(req[s]) EXCEPT !.pc = "update_nft"]]
    /\ UNCHANGED <<useSupabase, nfts, profiles, now, balances0, listed>>

\* await supabase.from('nfts').update({ owner_id }) (line 211), then 212
BuyUpdateNft(s, o) ==
    /\ req[s].kind = "buy" /\ req[s].pc = "update_nft"
    /\ FaultStep(o)
    /\ nfts' = IF o = "ok"
               THEN SetOwnerSupabase(nfts, req[s].nft_id, req[s].userId)
               ELSE nfts
    /\ req' = [req EXCEPT ![s] =
            IF o = "throw"
            THEN BuyDone([req[s] EXCEPT !.fault = TRUE], Resp(500, "error", <<>>))
            ELSE IF o = "error"
            THEN BuyDone([req[s] EXCEPT !.fault = TRUE],
                         Resp(200, "", <<req[s].newBalance>>))
            ELSE BuyDone([req[s] EXCEPT !.owned = HasId(nfts, req[s].nft_id)],
                         Resp(200, "", <<req[s].newBalance>>))]
    /\ UNCHANGED <<useSupabase, balances, profiles, now, balances0, listed>>

\* ------------------------------------- POST /api/admin/add_balance
\* !admin_id || !target_id || typeof amount === 'undefined'
MissingAddParams(admin_id, target_id, amount) ==
    admin_id = Missing \/ target_id = Missing \/ amount = MissingAmount

\* The authorization test reduced to the presence of admin_id.
IsAdminAnyPresent(admin_id) == admin_id # Missing

\* String(admin_id) !== ADMIN_TELEGRAM_ID
IsAdmin(admin_id) == admin_id = ADMIN_TELEGRAM_ID

AddReq(admin_id, target_id, amount) ==
    [kind |-> "add", pc |-> "add_read", resp |-> NoResp, fault |-> FALSE,
     admin_id |-> admin_id, tid |-> target_id, amount |-> amount,
     updated |-> Zero, wrote |-> FALSE, credit |-> Zero, during |-> Running]

AddDone(r, resp) == Done([r EXCEPT !.updated = Zero], resp)

\* The request's balance write, with what it did to the stored balance.
WroteCredit(r, updated) ==
    [r EXCEPT !.wrote = TRUE,
              !.credit = NumSub(updated, GetBalance(balances, r.tid))]

\* The read of line 238 with its row ignored: cur is always 0.
ReadCurrentIgnoringRow(r, o) ==
    IF o = "throw"
    THEN AddDone([r EXCEPT !.fault = TRUE], Resp(500, "error", <<>>))
    ELSE [r EXCEPT !.fault = (o = "error"), !.pc = "add_upsert",
                   !.updated = NumAdd(Zero, r.amount)]

\* await supabase.from('balances').select('amount')... (line 238), then 239-240
ReadCurrent(r, o) ==
    IF o = "throw"
    THEN AddDone([r EXCEPT !.fault = TRUE], Resp(500, "error", <<>>))
    ELSE IF o = "error"
    THEN [r EXCEPT !.fault = TRUE, !.pc = "add_upsert", !.updated = NumAdd(Zero, r.amount)]
    ELSE [r EXCEPT !.pc = "add_upsert",
                   !.updated = NumAdd(GetBalance(balances, r.tid), r.amount)]

\* The request arrives.  In-memory: the whole handler (lines 230-250) runs
\* now.  Supabase: it runs to the end of its first awaited call (line 238),
\* before which the handler read nothing from the store.
AddStart(s, admin_id, target_id, amount, o) ==
    /\ CanStart(s)
    /\ UNCHANGED <<useSupabase, nfts, profiles, now, balances0, listed>>
    /\ IF useSupabase /\ ~MissingAddParams(admin_id, target_id, amount) /\ IsAdmin(admin_id)
       THEN FaultStep(o)
       ELSE o = "ok" /\ UNCHANGED faults
    /\ IF MissingAddParams(admin_id, target_id, amount)
       THEN /\ req' = [req EXCEPT ![s] =
                    Done(Invalid,
                         Resp(400, "missing params", <<>>))]
            /\ UNCHANGED balances
       ELSE IF ~IsAdmin(admin_id)
       THEN /\ req' = [req EXCEPT ![s] =
                    AddDone(AddReq(admin_id, target_id, amount),
                            Resp(403, "not authorized", <<>>))]
            /\ UNCHANGED balances
       ELSE IF useSupabase
       THEN /\ req' = [req EXCEPT ![s] = ReadCurrent(AddReq(admin_id, target_id, amount), o)]
            /\ UNCHANGED balances
       ELSE LET r == AddReq(admin_id, target_id, amount)
                cur == GetBalance(balances, target_id)
                updated == NumAdd(cur, amount)
            IN  /\ balances' = Upsert(balances, target_id, updated)
                /\ req' = [req EXCEPT ![s] =
                        AddDone(WroteCredit(r, updated), Resp(200, "", <<updated>>))]

\* await supabase.from('balances').upsert(...) (line 241), then 242
AddUpsert(s, o) ==
    /\ req[s].kind = "add" /\ req[s].pc = "add_upsert"
    /\ FaultStep(o)
    /\ balances' = IF o = "ok"
                   THEN Upsert(balances, req[s].tid, req[s].updated)
                   ELSE balances
    /\ req' = [req EXCEPT ![s] =
            IF o = "throw"
            THEN AddDone([req[s] EXCEPT !.fault = TRUE], Resp(500, "error", <<>>))
            ELSE IF o = "error"
            THEN AddDone([req[s] EXCEPT !.fault = TRUE],
                         Resp(200, "", <<req[s].updated>>))
            ELSE AddDone(WroteCredit(req[s], req[s].updated),
                         Resp(200, "", <<req[s].updated>>))]
    /\ UNCHANGED <<useSupabase, nfts, profiles, now, balances0, listed>>

\* --------------------------------------------- POST /api/sync-nfts
\* One external event: the (name, number, sender_id, receiver_id) of the body.
Events == {"GiftA-1"}

EventInputs == Events \cup {Missing}

\* !name || typeof number === 'undefined' || !sender_id || !receiver_id
MissingSyncParams(ev) == ev = Missing

\* newNft (lines 289-300)
NewNft(ev, t) == [id |-> t, ref |-> ev, price |-> IngestPrice, owner_id |-> Null]

SyncReq(ev) ==
    [kind |-> "sync", pc |-> "og_fetch", resp |-> NoResp, fault |-> FALSE,
     ev |-> ev, nft |-> <<>>]

\* The request arrives and runs up to await fetch(link) (line 275).
SyncStart(s, ev) ==
    /\ CanStart(s)
    /\ req' = [req EXCEPT ![s] =
            IF MissingSyncParams(ev)
            THEN Done(Invalid, Resp(400, "missing params", <<>>))
            ELSE SyncReq(ev)]
    /\ UNCHANGED <<useSupabase, balances, nfts, profiles, now, faults, balances0, listed>>

\* fetch has settled: build newNft with id Date.now() (line 290).  In-memory:
\* unshift it and return (310-311).  Supabase: up to await insert (304).
SyncBuild(s) ==
    /\ req[s].kind = "sync" /\ req[s].pc = "og_fetch"
    /\ LET newNft == NewNft(req[s].ev, now)
       IN  IF useSupabase
           THEN /\ req' = [req EXCEPT ![s] = [req[s] EXCEPT !.pc = "insert", !.nft = <<newNft>>]]
                /\ UNCHANGED nfts
           ELSE /\ nfts' = <<newNft>> \o nfts
                /\ req' = [req EXCEPT ![s] =
                        Done([req[s] EXCEPT !.nft = <<newNft>>], Resp(200, "", <<>>))]
    /\ UNCHANGED <<useSupabase, balances, profiles, now, faults, balances0, listed>>

\* await supabase.from('nfts').insert(newNft) (line 304).  The table's key is
\* id (the handlers select one row by id): a second row with the same id is
\* refused, and the refusal comes back as an error the handler does not read.
SyncInsert(s, o) ==
    /\ req[s].kind = "sync" /\ req[s].pc = "insert"
    /\ FaultStep(o)
    /\ nfts' = IF o = "ok" /\ ~HasId(nfts, req[s].nft[1].id)
               THEN Append(nfts, req[s].nft[1])
               ELSE nfts
    /\ req' = [req EXCEPT ![s] =
            IF o = "throw"
            THEN Done([req[s] EXCEPT !.fault = TRUE], Resp(500, "error", <<>>))
            ELSE IF o = "error"
            THEN Done([req[s] EXCEPT !.fault = TRUE], Resp(200, "", <<>>))
            ELSE Done(req[s], Resp(200, "", <<>>))]
    /\ UNCHANGED <<useSupabase, balances, profiles, now, balances0, listed>>

\* -------------------------------------------- POST /api/ton/purchase
TonUsers == {DemoUser, "42", Missing}

TonTypes == {"stars", "premium", "gold"}

\* amount: <<>> is undefined
TonAmounts == {<<>>, <<1>>}

\* !user_id || !type || typeof amount === 'undefined'
MissingTonParams(user_id, type, amount) ==
    user_id = Missing \/ type = Missing \/ amount = <<>>

NoProfile == [stars_balance |-> 0, premium_until |-> <<>>]

\* data ? Number(data.stars_balance || 0) : 0   /   mockDB.profiles[pid].stars_balance || 0
GetStars(profs, pid) == IF pid \in DOMAIN profs THEN profs[pid].stars_balance ELSE 0

\* until = new Date(); until.setMonth(until.getMonth() + months)
Until(t, months) == << [from |-> t, months |-> months] >>

\* The target's row replaced by a fresh row holding only the field set.
SetProfileMockFreshRow(profs, pid, field, v) ==
    [u \in DOMAIN profs \cup {pid} |->
        IF u # pid THEN profs[u] ELSE [NoProfile EXCEPT ![field] = v]]

\* mockDB.profiles[pid] = mockDB.profiles[pid] || {...}, then the field is set
SetProfileMock(profs, pid, field, v) ==
    [u \in DOMAIN profs \cup {pid} |->
        IF u # pid THEN profs[u]
        ELSE [(IF pid \in DOMAIN profs THEN profs[pid] ELSE NoProfile) EXCEPT ![field] = v]]

\* profiles.update({...}).eq('id', user_id): only an existing row changes
SetProfileSupabase(profs, pid, field, v) ==
    [u \in DOMAIN profs |-> IF u = pid THEN [profs[u] EXCEPT ![field] = v] ELSE profs[u]]

TonReq(user_id, type, amount) ==
    [kind |-> "ton", pc |-> "ton_start", resp |-> NoResp, fault |-> FALSE,
     user_id |-> user_id, type |-> type, updated |-> amount]

\* await supabase.from('profiles').select('stars_balance')... (line 329), then 330-331
ReadStars(r, o) ==
    IF o = "throw"
    THEN Done([r EXCEPT !.fault = TRUE, !.updated = <<>>], Resp(500, "error", <<>>))
    ELSE IF o = "error"
    THEN [r EXCEPT !.fault = TRUE, !.pc = "stars_update"]
    ELSE [r EXCEPT !.pc = "stars_update",
                   !.updated = << GetStars(profiles, r.user_id) + r.updated[1] >>]

\* The request arrives.  In-memory: the whole handler (lines 322-361) runs
\* now.  Supabase, stars: it runs to the end of its first awaited call (329);
\* premium: it reads the clock (346) and runs up to the await of line 350.
TonStart(s, user_id, type, amount, o) ==
    /\ CanStart(s)
    /\ UNCHANGED <<useSupabase, balances, nfts, now, balances0, listed>>
    /\ IF useSupabase /\ ~MissingTonParams(user_id, type, amount) /\ type = "stars"
       THEN FaultStep(o)
       ELSE o = "ok" /\ UNCHANGED faults
    /\ IF MissingTonParams(user_id, type, amount)
       THEN /\ req' = [req EXCEPT ![s] =
                    Done(Invalid, Resp(400, "missing params", <<>>))]
            /\ UNCHANGED profiles
       ELSE IF type = "stars"
       THEN IF useSupabase
            THEN /\ req' = [req EXCEPT ![s] = ReadStars(TonReq(user_id, type, amount), o)]
                 /\ UNCHANGED profiles
            ELSE LET updated == GetStars(profiles, user_id) + amount[1]
                 IN  /\ profiles' = SetProfileMock(profiles, user_id, "stars_balance", updated)
                     /\ req' = [req EXCEPT ![s] =
                            Done(TonReq(user_id, type, <<updated>>), Resp(200, "", <<>>))]
       ELSE IF type = "premium"
       THEN IF useSupabase
            THEN /\ req' = [req EXCEPT ![s] =
                        [TonReq(user_id, type, Until(now, amount[1]))
                            EXCEPT !.pc = "premium_update"]]
                 /\ UNCHANGED profiles
            ELSE /\ profiles' = SetProfileMock(profiles, user_id, "premium_until",
                                               Until(now, amount[1]))
                 /\ req' = [req EXCEPT ![s] =
                        Done(TonReq(user_id, type, Until(now, amount[1])),
                             Resp(200, "", <<>>))]
       ELSE /\ req' = [req EXCEPT ![s] =
                    Done(TonReq(user_id, type, amount), Resp(400, "unknown type", <<>>))]
            /\ UNCHANGED profiles

\* await supabase.from('profiles').update(...) (line 332 or 350), then the response
TonUpdate(s, o) ==
    /\ req[s].kind = "ton" /\ req[s].pc \in {"stars_update", "premium_update"}
    /\ FaultStep(o)
    /\ profiles' =
            IF o # "ok" THEN profiles
            ELSE IF req[s].pc = "stars_update"
            THEN SetProfileSupabase(profiles, req[s].user_id, "stars_balance", req[s].updated[1])
            ELSE SetProfileSupabase(profiles, req[s].user_id, "premium_until", req[s].updated)
    /\ req' = [req EXCEPT ![s] =
            IF o = "throw"
            THEN Done([req[s] EXCEPT !.fault = TRUE], Resp(500, "error", <<>>))
            ELSE IF o = "error"
            THEN Done([req[s] EXCEPT !.fault = TRUE], Resp(200, "", <<>>))
            ELSE Done(req[s], Resp(200, "", <<>>))]
    /\ UNCHANGED <<useSupabase, balances, nfts, now, balances0, listed>>

\* ------------------------------------------------ GET /api/nfts
RECURSIVE Ids(_)
\* The ids of the records of cat, in order.
Ids(cat) == IF cat = <<>> THEN <<>> ELSE <<cat[1].id>> \o Ids(Tail(cat))

IsUnowned(r) == r.owner_id = Null

IsUpdated(r) == r.owner_id # Null

\* supabase.from('nfts').select('*') names no order (line 157): the rows come
\* in the order the table holds them, which is the order of insertion until a
\* row is updated; the update of line 211 writes a new version of the row,
\* which a later scan meets in its old place or after the rows not updated.
SelectOrders(cat) ==
    { cat, SelectSeq(cat, IsUnowned) \o SelectSeq(cat, IsUpdated) }

\* The whole handler (lines 154-167): in-memory it returns mockDB.nfts; on
\* Supabase it returns the rows of the select, or 500 when the call fails.
ListNfts(o) ==
    /\ IF useSupabase THEN FaultStep(o) ELSE o = "ok" /\ UNCHANGED faults
    /\ IF o = "ok"
       THEN \E rows \in (IF useSupabase THEN SelectOrders(nfts) ELSE {nfts}) :
                listed' = Ids(rows)
       ELSE UNCHANGED listed
    /\ UNCHANGED <<useSupabase, balances, nfts, profiles, now, req, balances0>>

\* ------------------------------------------------------------- clock
\* The clock is read only by Date.now() (line 290) and new Date() (346): a
\* new value shows only once the current one has been read.
TimeRead(t) ==
    \/ HasId(nfts, t)
    \/ \E s \in Slots : req[s].kind = "sync" /\ req[s].nft # <<>> /\ req[s].nft[1].id = t
    \/ \E s \in Slots : /\ req[s].kind = "ton" /\ req[s].type = "premium"
                        /\ req[s].updated[1].from = t

Tick ==
    /\ now < StartTime + MaxTicks
    /\ TimeRead(now)
    /\ now' = now + 1
    /\ UNCHANGED <<useSupabase, balances, nfts, profiles, req, faults, balances0, listed>>

\* ----------------------------------------------------- specification
\* NFTs ingested (and a credit issued) before the model starts.
OldIngested ==
    << NewNft("GiftC-3", StartTime - 1), NewNft("GiftB-2", StartTime - 2) >>

\* Two gifts whose sync-nfts requests read Date.now() (line 290) in the same
\* millisecond, before the model starts: both records carry the same id.
OldSameTick ==
    << NewNft("GiftC-3", StartTime - 1), NewNft("GiftB-2", StartTime - 1) >>

\* The catalog and the balances at start.  In-memory: as constructed (lines
\* 61-77), or after two sync-nfts requests and add_balance(admin, "42", 1.0)
\* have run one after the other, the two sync-nfts requests in different
\* milliseconds or in the same one.  Supabase: the tables outlive the process;
\* they hold the same rows as the in-memory store after those requests.
InitStores(sb) ==
    IF sb
    THEN { [nfts |-> SeedNfts \o << OldIngested[2], OldIngested[1] >>,
            balances |-> [u \in UserIds |-> IF u = DemoUser THEN SeedBalance ELSE OneTon]] }
    ELSE { [nfts |-> SeedNfts, balances |-> [u \in {DemoUser} |-> SeedBalance]],
           [nfts |-> OldIngested \o SeedNfts,
            balances |-> [u \in UserIds |-> IF u = DemoUser THEN SeedBalance ELSE OneTon]],
           [nfts |-> OldSameTick \o SeedNfts,
            balances |-> [u \in UserIds |-> IF u = DemoUser THEN SeedBalance ELSE OneTon]] }

Init ==
    /\ useSupabase \in BOOLEAN
    /\ \E st \in InitStores(useSupabase) : balances = st.balances /\ nfts = st.nfts
    /\ profiles = [u \in {DemoUser} |-> NoProfile]
    /\ now = StartTime
    /\ req = [s \in Slots |-> IdleReq]
    /\ faults = 0
    /\ balances0 = balances
    /\ listed = <<>>

Next ==
    \/ Tick
    \/ \E o \in Outcomes : ListNfts(o)
    \/ \E s \in Slots, b \in BuyerIds, n \in BuyNftIds, o \in Outcomes : BuyStart(s, b, n, o)
    \/ \E s \in Slots, o \in Outcomes : BuyGetBalance(s, o)
    \/ \E s \in Slots, o \in Outcomes : BuyUpsertBalance(s, o)
    \/ \E s \in Slots, o \in Outcomes : BuyUpdateNft(s, o)
    \/ \E s \in Slots, a \in AdminIds, t \in TargetIds, m \in Amounts, o \in Outcomes :
            AddStart(s, a, t, m, o)
    \/ \E s \in Slots, o \in Outcomes : AddUpsert(s, o)
    \/ \E s \in Slots, e \in EventInputs : SyncStart(s, e)
    \/ \E s \in Slots : SyncBuild(s)
    \/ \E s \in Slots, o \in Outcomes : SyncInsert(s, o)
    \/ \E s \in Slots, u \in TonUsers, t \in TonTypes, m \in TonAmounts, o \in Outcomes :
            TonStart(s, u, t, m, o)
    \/ \E s \in Slots, o \in Outcomes : TonUpdate(s, o)

Spec == Init /\ [][Next]_vars

\* The specification of the ledger alone: the two handlers that read or write
\* balances and owner_id.
NextLedger ==
    \/ \E s \in Slots, b \in BuyerIds, n \in BuyNftIds, o \in Outcomes : BuyStart(s, b, n, o)
    \/ \E s \in Slots, o \in Outcomes : BuyGetBalance(s, o)
    \/ \E s \in Slots, o \in Outcomes : BuyUpsertBalance(s, o)
    \/ \E s \in Slots, o \in Outcomes : BuyUpdateNft(s, o)
    \/ \E s \in Slots, a \in AdminIds, t \in TargetIds, m \in Amounts, o \in Outcomes :
            AddStart(s, a, t, m, o)
    \/ \E s \in Slots, o \in Outcomes : AddUpsert(s, o)

SpecLedger == Init /\ [][NextLedger]_vars

\* The payment callback alone (with the clock it reads).
NextTon ==
    \/ Tick
    \/ \E s \in Slots, u \in TonUsers, t \in TonTypes, m \in TonAmounts, o \in Outcomes :
            TonStart(s, u, t, m, o)
    \/ \E s \in Slots, o \in Outcomes : TonUpdate(s, o)

SpecTon == Init /\ [][NextTon]_vars

\* A handler waiting on a storage call goes on: the awaited call settles.
Settle ==
    \/ \E s \in Slots, o \in Outcomes : BuyGetBalance(s, o)
    \/ \E s \in Slots, o \in Outcomes : BuyUpsertBalance(s, o)
    \/ \E s \in Slots, o \in Outcomes : BuyUpdateNft(s, o)
    \/ \E s \in Slots, o \in Outcomes : AddUpsert(s, o)

\* The ledger with every awaited storage call settling eventually.
SpecLedgerFair == SpecLedger /\ WF_vars(Settle)

\* ------------------------------------------------------------ claims
OwnerOf(cat, nft_id) == cat[FirstIndex(cat, nft_id)].owner_id

PriceOf(nft_id) == nfts[FirstIndex(nfts, nft_id)].price

IsBuy(r) == r.kind = "buy"

IsAdd(r) == r.kind = "add"

Succeeded(r) == r.pc = "done" /\ r.resp.code = 200 /\ r.resp.error = ""

\* Requests s and t overlapped: one arrived while the other was in its handler.
Concurrent(s, t) == s \in req[t].during \/ t \in req[s].during

\* Request x wrote the balance of user u.
WroteBalanceOf(x, u) ==
    \/ IsBuy(req[x]) /\ req[x].userId = u /\ req[x].wrote
    \/ IsAdd(req[x]) /\ req[x].tid = u /\ req[x].wrote

\* C1: once an asset's owner_id is set, no step changes or clears it.
C1OwnerWriteOnce ==
    [][\A i \in 1..Len(nfts) :
          nfts[i].owner_id # Null =>
              /\ HasId(nfts', nfts[i].id)
              /\ OwnerOf(nfts', nfts[i].id) = nfts[i].owner_id]_vars

\* C2: of concurrent purchases of one unowned asset by distinct buyers who
\* can all pay, exactly one succeeds, the others answer "already owned", and
\* only the winner is debited.
C2OneWinner ==
    \A s \in Slots, t \in Slots :
        ( /\ s # t
          /\ IsBuy(req[s]) /\ IsBuy(req[t])
          /\ req[s].pc = "done" /\ req[t].pc = "done"
          /\ ~req[s].fault /\ ~req[t].fault
          /\ Concurrent(s, t)
          /\ req[s].eligible /\ req[t].eligible
          /\ req[s].nft_id = req[t].nft_id
          /\ req[s].userId # req[t].userId
          /\ Succeeded(req[s]) )
        => /\ req[t].resp.error = "already owned"
           /\ ~req[t].wrote

\* C3: no purchase attempt that has ended has applied exactly one of its two
\* writes (the balance debit, the ownership grant).
C3DebitIffOwned ==
    \A s \in Slots :
        (IsBuy(req[s]) /\ Ended(req[s])) => (req[s].wrote <=> req[s].owned)

\* C4: every account's balance is >= 0.
C4NonNegative ==
    \A u \in DOMAIN balances : ~NumLess(balances[u], Zero)

\* No request other than s and t has written the balance of u or is still able to.
OnlyWriters(s, t, u) ==
    \A x \in Slots \ {s, t} : ~WroteBalanceOf(x, u) /\ x \notin Running

\* C5: a buyer whose balance equals the price p of two unowned assets buys
\* both concurrently: exactly one purchase succeeds, the other answers
\* insufficient_balance, the balance ends at 0 and the buyer owns one of the two.
C5ExactBalanceRace ==
    \A s \in Slots, t \in Slots :
        ( /\ s # t
          /\ IsBuy(req[s]) /\ IsBuy(req[t])
          /\ req[s].pc = "done" /\ req[t].pc = "done"
          /\ ~req[s].fault /\ ~req[t].fault
          /\ Concurrent(s, t)
          /\ req[s].eligible /\ req[t].eligible
          /\ req[s].userId = req[t].userId
          /\ req[s].nft_id # req[t].nft_id
          /\ PriceOf(req[s].nft_id) = PriceOf(req[t].nft_id)
          /\ GetBalance(balances0, req[s].userId) = PriceOf(req[s].nft_id)
          /\ OnlyWriters(s, t, req[s].userId)
          /\ Succeeded(req[s]) )
        => /\ req[t].resp.error = "insufficient_balance"
           /\ GetBalance(balances, req[s].userId) = Zero
           /\ OwnerOf(nfts, req[s].nft_id) = req[s].userId
           /\ OwnerOf(nfts, req[t].nft_id) = Null

RECURSIVE SumDebits(_, _)
\* What the balance writes of the purchases of user u (slots 1..n) took off the stored balance.
SumDebits(u, n) ==
    IF n = 0 THEN Zero
    ELSE NumAdd(SumDebits(u, n - 1),
                IF IsBuy(req[n]) /\ req[n].userId = u /\ req[n].wrote
                THEN req[n].debit ELSE Zero)

RECURSIVE SumOwnedPrices(_, _)
\* The prices of the assets (places 1..i of the catalog) whose owner_id is u.
SumOwnedPrices(u, i) ==
    IF i = 0 THEN Zero
    ELSE NumAdd(SumOwnedPrices(u, i - 1),
                IF nfts[i].owner_id = u THEN nfts[i].price ELSE Zero)

\* C6: with no purchase in flight, what purchases have debited from an account
\* equals the sum of the prices of the assets it owns.
C6AccountingIdentity ==
    (\A s \in Slots : IsBuy(req[s]) => ~InFlight(req[s]))
    => \A u \in UserIds : SumDebits(u, MaxReq) = SumOwnedPrices(u, Len(nfts))

RECURSIVE SumCredited(_, _)
\* The amounts of the add_balance requests for u (slots 1..n) that answered ok.
SumCredited(u, n) ==
    IF n = 0 THEN Zero
    ELSE NumAdd(SumCredited(u, n - 1),
                IF IsAdd(req[n]) /\ req[n].tid = u /\ Succeeded(req[n])
                THEN req[n].amount ELSE Zero)

\* C7: concurrent authorized credits to one account serialize: once they have
\* answered, the balance is the initial balance plus every credited amount.
C7CreditsSerialize ==
    \A s \in Slots, t \in Slots :
        ( /\ s # t
          /\ IsAdd(req[s]) /\ IsAdd(req[t])
          /\ Succeeded(req[s]) /\ Succeeded(req[t])
          /\ ~req[s].fault /\ ~req[t].fault
          /\ Concurrent(s, t)
          /\ req[s].tid = req[t].tid
          /\ OnlyWriters(s, t, req[s].tid) )
        => GetBalance(balances, req[s].tid)
             = NumAdd(GetBalance(balances0, req[s].tid),
                      NumAdd(req[s].amount, req[t].amount))

\* C8: a credit of c to u concurrent with a purchase by u at price p, both
\* answering ok, leaves u with initial + c - p.
C8CreditAndDebit ==
    \A s \in Slots, t \in Slots :
        ( /\ IsAdd(req[s]) /\ IsBuy(req[t])
          /\ Succeeded(req[s]) /\ Succeeded(req[t])
          /\ ~req[s].fault /\ ~req[t].fault
          /\ Concurrent(s, t)
          /\ req[s].tid = req[t].userId
          /\ OnlyWriters(s, t, req[s].tid) )
        => GetBalance(balances, req[s].tid)
             = NumSub(NumAdd(GetBalance(balances0, req[s].tid), req[s].amount),
                      PriceOf(req[t].nft_id))

\* C9: a purchase(b, a) that arrives after a purchase(b, a) has committed ends
\* at once, writes neither b's balance nor a's owner_id, and (unless its read
\* of the catalog failed) answers "already owned", whatever b's balance is.
C9RetryAlreadyOwned ==
    \A s \in Slots :
        (IsBuy(req[s]) /\ req[s].retry)
        => /\ Ended(req[s])
           /\ ~req[s].wrote /\ ~req[s].owned
           /\ ~req[s].fault => (req[s].resp.code = 400 /\ req[s].resp.error = "already owned")

\* A retry was answered "already owned" although the buyer could no longer pay.
C9Witness ==
    \E s \in Slots :
        /\ IsBuy(req[s]) /\ req[s].retry
        /\ req[s].resp.error = "already owned"
        /\ NumLess(GetBalance(balances, req[s].userId), PriceOf(req[s].nft_id))

\* C10: add_balance by an actor other than ADMIN_TELEGRAM_ID answers 403 "not
\* authorized" in the step it arrives (the step that takes a free slot and
\* records an add_balance request), before any call to the store, and
\* changes no balance, for every target and amount.
C10Unauthorized ==
    [][\A s \in Slots :
          ( /\ req[s].pc = "idle"
            /\ IsAdd(req'[s])
            /\ req'[s].admin_id # ADMIN_TELEGRAM_ID )
          => /\ req'[s].pc = "done"
             /\ req'[s].resp = Resp(403, "not authorized", <<>>)
             /\ ~req'[s].wrote
             /\ balances' = balances
             /\ faults' = faults]_vars

\* An unauthorized add_balance has been answered, and the target's balance is
\* what it was.
C10Witness ==
    \E s \in Slots :
        /\ IsAdd(req[s]) /\ req[s].admin_id # ADMIN_TELEGRAM_ID
        /\ req[s].resp.code = 403
        /\ GetBalance(balances, req[s].tid) = GetBalance(balances0, req[s].tid)

\* C11: add_balance by the admin with amount <= 0 is refused and does not
\* write the target's balance.
C11InvalidAmount ==
    \A s \in Slots :
        ( /\ IsAdd(req[s]) /\ IsAdmin(req[s].admin_id)
          /\ NumLeq(req[s].amount, Zero)
          /\ Ended(req[s]) /\ ~req[s].fault )
        => ~Succeeded(req[s]) /\ ~req[s].wrote

\* Request s is at the balance test of lines 193-203 for an asset that is in
\* the catalog and unowned: in-memory it arrives now, on Supabase it is at the
\* await of line 195.
AtBalanceTest(s) ==
    IF useSupabase
    THEN /\ IsBuy(req[s]) /\ req[s].pc = "get_balance"
         /\ req'[s] # req[s] /\ ~req'[s].fault
         /\ OwnerOf(nfts, req[s].nft_id) = Null
    ELSE /\ req[s].pc = "idle" /\ IsBuy(req'[s])
         /\ HasId(nfts, req'[s].nft_id)
         /\ OwnerOf(nfts, req'[s].nft_id) = Null

\* C12: a purchase of an existing unowned asset by a buyer whose balance is
\* below the price answers insufficient_balance with the buyer's current
\* balance and changes no balance and no owner_id.
C12InsufficientFunds ==
    [][\A s \in Slots :
          ( /\ AtBalanceTest(s)
            /\ NumLess(GetBalance(balances, req'[s].userId), PriceOf(req'[s].nft_id)) )
          => /\ req'[s].pc = "done"
             /\ req'[s].resp = Resp(200, "insufficient_balance",
                                    <<GetBalance(balances, req'[s].userId)>>)
             /\ ~req'[s].wrote /\ ~req'[s].owned
             /\ balances' = balances
             /\ nfts' = nfts]_vars

\* A buyer who cannot pay for an unowned asset has been answered
\* insufficient_balance with the balance the store holds.
C12Witness ==
    \E s \in Slots :
        /\ IsBuy(req[s]) /\ req[s].pc = "done" /\ ~req[s].fault
        /\ req[s].resp.error = "insufficient_balance"
        /\ req[s].resp.balance = <<GetBalance(balances, req[s].userId)>>
        /\ OwnerOf(nfts, req[s].nft_id) = Null
        /\ NumLess(GetBalance(balances, req[s].userId), PriceOf(req[s].nft_id))

\* Request s returns in this step.
Completes(s) == req[s].pc # "done" /\ req'[s].pc = "done"

\* No buy or add_balance request was in its handler while s was.
Lone(s) ==
    /\ req'[s].during = {}
    /\ \A t \in Slots \ {s} : (IsBuy(req'[t]) \/ IsAdd(req'[t])) => s \notin req'[t].during

\* C13: a purchase(b, a) run alone, for any catalog asset a that is unowned
\* and a buyer b with balance >= price, succeeds: it is debited price(a), the
\* response carries the stored balance, and a's owner_id becomes b.
C13LonePurchase ==
    [][\A s \in Slots, i \in 1..Len(nfts) :
          ( /\ Completes(s) /\ IsBuy(req'[s]) /\ ~req'[s].fault
            /\ Lone(s)
            /\ req'[s].eligible
            /\ nfts[i].id = req'[s].nft_id
            /\ nfts[i].owner_id = Null )
          => /\ Succeeded(req'[s])
             /\ req'[s].wrote
             /\ req'[s].debit = nfts[i].price
             /\ req'[s].resp.balance = <<GetBalance(balances', req'[s].userId)>>
             /\ nfts'[i].owner_id = req'[s].userId]_vars

\* C14: add_balance by the admin with amount > 0, run alone, sets the target's
\* balance to its previous balance (0 for a target without an account, whose
\* account is created) plus amount, and returns that balance.
C14LoneCredit ==
    [][\A s \in Slots :
          ( /\ Completes(s) /\ IsAdd(req'[s]) /\ ~req'[s].fault
            /\ Lone(s)
            /\ IsAdmin(req'[s].admin_id)
            /\ NumLess(Zero, req'[s].amount) )
          => /\ Succeeded(req'[s])
             /\ req'[s].wrote
             /\ req'[s].credit = req'[s].amount
             /\ req'[s].tid \in DOMAIN balances'
             /\ req'[s].resp.balance = <<balances'[req'[s].tid]>>]_vars

\* A credit of 1.0 to a target that had no account has created the account
\* with balance 1.0.
C14Witness ==
    \E s \in Slots :
        /\ IsAdd(req[s]) /\ Succeeded(req[s]) /\ req[s].wrote
        /\ req[s].amount = OneTon
        /\ req[s].tid \notin DOMAIN balances0
        /\ req[s].tid \in DOMAIN balances
        /\ balances[req[s].tid] = OneTon

\* The ids of the catalog cat are pairwise distinct.
DistinctIds(cat) == \A i, j \in 1..Len(cat) : cat[i].id = cat[j].id => i = j

\* C15: no step adds to the catalog a record whose id another record (seed
\* or ingested) already carries.
C15DistinctIds ==
    [][DistinctIds(nfts) => DistinctIds(nfts')]_vars

\* C16: delivering an external event again adds no second asset: the catalog
\* never holds two records for the same event.
C16IngestIdempotent ==
    \A i, j \in 1..Len(nfts) : nfts[i].ref = nfts[j].ref => i = j

\* C17: any two assets that two successive listings both show come in the
\* same relative order in both.
C17StableOrder ==
    [][\A a, b \in 1..Len(listed), c, d \in 1..Len(listed') :
          ( /\ listed[a] # listed[b]
            /\ listed[a] = listed'[c] /\ listed[b] = listed'[d]
            /\ a < b )
          => c < d]_vars

\* A buy request arrives in slot s in this step and its read of the catalog
\* succeeds.
BuyArrives(s) == req[s].pc = "idle" /\ IsBuy(req'[s]) /\ ~req'[s].fault

\* C18: the rejections of a purchase come in a fixed order and write nothing:
\* an id absent from the catalog answers "nft not found" and an owned asset
\* answers "already owned", both whatever the buyer's balance;
\* insufficient_balance is answered only by a request that found the asset in
\* the catalog and unowned.
C18RejectionOrder ==
    [][\A s \in Slots :
          /\ (BuyArrives(s) /\ ~HasId(nfts, req'[s].nft_id))
             => /\ req'[s].pc = "done"
                /\ req'[s].resp = Resp(404, "nft not found", <<>>)
                /\ balances' = balances /\ nfts' = nfts
          /\ (BuyArrives(s) /\ HasId(nfts, req'[s].nft_id)
                            /\ OwnerOf(nfts, req'[s].nft_id) # Null)
             => /\ req'[s].pc = "done"
                /\ req'[s].resp = Resp(400, "already owned", <<>>)
                /\ balances' = balances /\ nfts' = nfts
          /\ (Completes(s) /\ IsBuy(req'[s]) /\ ~req'[s].fault
                           /\ req'[s].resp.error = "insufficient_balance")
             => /\ HasId(nfts, req'[s].nft_id)
                /\ IF useSupabase
                   THEN req[s].pc = "get_balance" /\ ~IsOwned(req[s].nft[1])
                   ELSE OwnerOf(nfts, req'[s].nft_id) = Null
                /\ balances' = balances /\ nfts' = nfts]_vars

\* A buyer with balance 0 asked for an id that is not in the catalog and was
\* answered "nft not found".
C18Witness ==
    \E s \in Slots :
        /\ IsBuy(req[s]) /\ ~req[s].fault
        /\ req[s].resp = Resp(404, "nft not found", <<>>)
        /\ ~HasId(nfts, req[s].nft_id)
        /\ GetBalance(balances, req[s].userId) = Zero

\* The purchase was answered a failure and wrote nothing.
Rejected(r) == IsBuy(r) /\ r.pc = "done" /\ ~Succeeded(r) /\ ~r.wrote /\ ~r.owned

\* The purchase was answered ok and applied both of its writes.
CommittedOk(r) == Committed(r) /\ Succeeded(r)

\* C19: every purchase that has started eventually has answered and is either
\* rejected with nothing written or committed with both writes applied, also
\* when a storage call fails; and the answer of an ended purchase never changes.
C19OneOutcome ==
    /\ \A s \in Slots :
          [](IsBuy(req[s]) => <>(Rejected(req[s]) \/ CommittedOk(req[s])))
    /\ [][\A s \in Slots :
            (IsBuy(req[s]) /\ Ended(req[s])) => req'[s] = req[s]]_vars

\* The profile row of user u in profs (the row a first write would create).
RowOf(profs, u) == IF u \in DOMAIN profs THEN profs[u] ELSE NoProfile

\* C20: a step of /api/ton/purchase changes no balance and no catalog record;
\* it changes at most the row of its user_id in profiles, there only
\* stars_balance (type stars) or only premium_until (type premium), and
\* nothing at all for another type or a request lacking a parameter.
C20PaymentFrame ==
    [][\A s \in Slots :
          /\ (req'[s] # req[s] /\ req'[s].kind = "ton")
             => /\ balances' = balances
                /\ nfts' = nfts
                /\ DOMAIN profiles \subseteq DOMAIN profiles'
                /\ DOMAIN profiles' \subseteq DOMAIN profiles \cup {req'[s].user_id}
                /\ \A u \in DOMAIN profiles :
                      u # req'[s].user_id => profiles'[u] = profiles[u]
                /\ req'[s].type = "stars"
                   => RowOf(profiles', req'[s].user_id).premium_until
                        = RowOf(profiles, req'[s].user_id).premium_until
                /\ req'[s].type = "premium"
                   => RowOf(profiles', req'[s].user_id).stars_balance
                        = RowOf(profiles, req'[s].user_id).stars_balance
                /\ req'[s].type \notin {"stars", "premium"}
                   => (profiles' = profiles /\ req'[s].resp.code = 400)
          /\ (req'[s] # req[s] /\ req'[s].kind = "invalid")
             => (balances' = balances /\ nfts' = nfts /\ profiles' = profiles)]_vars

\* A stars payment and a premium payment for the same user have both been
\* applied to the profile, and the balances are what they were at start.
C20Witness ==
    \E s, t \in Slots :
        /\ req[s].kind = "ton" /\ req[s].type = "stars" /\ req[s].pc = "done"
        /\ req[t].kind = "ton" /\ req[t].type = "premium" /\ req[t].pc = "done"
        /\ req[s].user_id = req[t].user_id
        /\ RowOf(profiles, req[s].user_id).stars_balance > 0
        /\ RowOf(profiles, req[s].user_id).premium_until # <<>>
        /\ balances = balances0

\* Request s, a purchase, takes a step of its handler.
BuySteps(s) == req'[s] # req[s] /\ IsBuy(req'[s])

\* C21: a step of a purchase(b, a) changes no balance but b's, no owner_id
\* but a's and no price, and raises no stored balance.
C21PurchaseFrame ==
    [][\A s \in Slots :
          BuySteps(s)
          => /\ \A u \in DOMAIN balances \cup DOMAIN balances' :
                   /\ u # req'[s].userId
                      => (u \in DOMAIN balances /\ u \in DOMAIN balances'
                          /\ balances'[u] = balances[u])
                   /\ NumLeq(GetBalance(balances', u), GetBalance(balances, u))
             /\ Len(nfts') = Len(nfts)
             /\ \A i \in 1..Len(nfts) :
                   /\ nfts'[i].id = nfts[i].id
                   /\ nfts'[i].price = nfts[i].price
                   /\ nfts[i].id # req'[s].nft_id
                      => nfts'[i].owner_id = nfts[i].owner_id]_vars

\* The catalog cat with every owner_id unset.
Unclaimed(cat) == [i \in 1..Len(cat) |-> [cat[i] EXCEPT !.owner_id = Null]]

\* The in-memory store after request r has run alone on the store st.
RunAlone(st, r) ==
    IF IsBuy(r)
    THEN LET data == FindNft(st.nfts, r.nft_id)
             balance == GetBalance(st.balances, r.userId)
         IN  IF data = <<>> THEN st
             ELSE IF IsOwned(data[1]) \/ Insufficient(balance, data[1]) THEN st
             ELSE [balances |-> Upsert(st.balances, r.userId, NewBalance(balance, data[1])),
                   nfts |-> SetOwnerMock(st.nfts, r.nft_id, r.userId)]
    ELSE IF IsAdd(r) /\ IsAdmin(r.admin_id)
    THEN [balances |-> Upsert(st.balances, r.tid,
                              NumAdd(GetBalance(st.balances, r.tid), r.amount)),
          nfts |-> st.nfts]
    ELSE st

RECURSIVE Sequential(_)
\* The store after the requests of slots 1..n have run one after the other,
\* in the order of their arrival, on the store the model started with.
Sequential(n) ==
    IF n = 0 THEN [balances |-> balances0, nfts |-> Unclaimed(nfts)]
    ELSE RunAlone(Sequential(n - 1), req[n])

\* C22: in-memory, no buy or add_balance request is ever in the middle of
\* its handler, the store is the one a sequential run of the requests gives,
\* and at most one purchase of a given asset id has answered ok.
C22InMemoryAtomic ==
    ~useSupabase
    => /\ \A s \in Slots : (IsBuy(req[s]) \/ IsAdd(req[s]))
                           => (req[s].pc = "done" /\ req[s].during = {})
       /\ Sequential(MaxReq) = [balances |-> balances, nfts |-> nfts]
       /\ \A s, t \in Slots :
             ( /\ IsBuy(req[s]) /\ IsBuy(req[t]) /\ s # t
               /\ Succeeded(req[s]) /\ Succeeded(req[t]) )
             => req[s].nft_id # req[t].nft_id

\* In-memory, two buyers who could both pay asked for the same asset: one was
\* answered ok, the other "already owned".
C22Witness ==
    /\ ~useSupabase
    /\ \E s, t \in Slots :
          /\ IsBuy(req[s]) /\ IsBuy(req[t])
          /\ req[s].nft_id = req[t].nft_id
          /\ req[s].userId # req[t].userId
          /\ Succeeded(req[s])
          /\ req[t].resp = Resp(400, "already owned", <<>>)
          /\ NumLeq(PriceOf(req[t].nft_id), GetBalance(balances, req[t].userId))

\* The response of the in-memory handler to request r run alone on the store st.
AnswerAlone(st, r) ==
    IF IsBuy(r)
    THEN LET data == FindNft(st.nfts, r.nft_id)
             balance == GetBalance(st.balances, r.userId)
         IN  IF data = <<>> THEN Resp(404, "nft not found", <<>>)
             ELSE IF IsOwned(data[1]) THEN Resp(400, "already owned", <<>>)
             ELSE IF Insufficient(balance, data[1])
             THEN Resp(200, "insufficient_balance", <<balance>>)
             ELSE Resp(200, "", <<NewBalance(balance, data[1])>>)
    ELSE IF IsAdmin(r.admin_id)
    THEN Resp(200, "", <<NumAdd(GetBalance(st.balances, r.tid), r.amount)>>)
    ELSE Resp(403, "not authorized", <<>>)

IsLedger(r) == IsBuy(r) \/ IsAdd(r)

\* Every buy and add_balance request so far ran from arrival to response with
\* no other one in its handler, and no storage call failed.
OneAtATime ==
    /\ faults = 0
    /\ \A s \in Slots :
          IsLedger(req[s]) => (req[s].pc = "done" /\ req[s].during = {})

\* C23: when the requests ran one at a time and no storage call failed, each
\* backend answered every request as the in-memory handler run alone answers
\* it, and holds the balances and owners a sequential in-memory run gives:
\* the two backends agree on every response and on the final store.
C23BackendsAgree ==
    OneAtATime
    => /\ Sequential(MaxReq) = [balances |-> balances, nfts |-> nfts]
       /\ \A s \in Slots :
             IsLedger(req[s]) => req[s].resp = AnswerAlone(Sequential(s - 1), req[s])

\* On Supabase a credit and a purchase, one after the other, have both
\* answered ok.
C23Witness ==
    /\ useSupabase /\ OneAtATime
    /\ \E s, t \in Slots :
          /\ IsAdd(req[s]) /\ Succeeded(req[s]) /\ req[s].wrote
          /\ IsBuy(req[t]) /\ Succeeded(req[t]) /\ req[t].owned

====
